---- MODULE Spec2Model ----
(***************************************************************************)
(* A model of the SPH fluid simulation of fluid2d-rs: the particle state   *)
(* store (resources/simulation.rs), the parameter surface                  *)
(* (resources/config.rs), the kernels (kernels.rs) and the four-stage tick *)
(* update_physics_rayon (systems.rs).                                      *)
(*                                                                         *)
(* Numbers.  The program computes in f32.  The model computes in fixed     *)
(* point, with division truncated toward zero:                             *)
(*   lengths and velocities   in 1/LU of a world unit                      *)
(*   densities and pressures  in 1/DU (millionths)                         *)
(*   forces                   in 1/FU (thousandths)                        *)
(* Non-finite values (NaN, infinities) are outside the model.              *)
(***************************************************************************)
EXTENDS Integers, Sequences, FiniteSets, TLC

VARIABLES
    PARTICLE_COUNT,  \* config.rs: the number of particles of this build
    sim,             \* the FluidSimulation resource
    config,          \* the FluidConfig resource
    pc,              \* position inside update_physics_rayon, "idle" between systems;
                     \* "panic" and "nonfinite" end the run
    input,           \* the interaction input read at the start of the running tick
    densDone,        \* work items of the density/pressure pass that have run
    forceDone,       \* work items of the force pass that have run
    integDone,       \* work items of the integration pass that have run
    pre,             \* history: the simulation as it was when the running tick began
    expected,        \* history: the outcome of the running tick in index order
    lastOp,          \* history: the last operation called
    ticks,           \* history: calls of update_physics_rayon so far
    resets,          \* history: resets after construction so far
    edits            \* history: parameter edits so far

vars == <<PARTICLE_COUNT, sim, config, pc, input, densDone, forceDone, integDone,
          pre, expected, lastOp, ticks, resets, edits>>

----------------------------------------------------------------------------
(* Bounds of the model *)

MaxParticles == 2
MaxTicks == 2
MaxResets == 1
MaxEdits == 1
MaxGridCount == 101

----------------------------------------------------------------------------
(* Fixed point *)

LU == 10
DU == 1000000
FU == 1000

Abs(a) == IF a < 0 THEN 0 - a ELSE a

Sgn(a) == IF a < 0 THEN 0 - 1 ELSE 1

Min(a, b) == IF a < b THEN a ELSE b

Max(a, b) == IF a > b THEN a ELSE b

\* a / b for b > 0, truncated toward zero
Div(a, b) == Sgn(a) * (Abs(a) \div b)

\* a * b / c for c > 0, truncated toward zero, without forming a * b
MulDiv(a, b, c) ==
    Sgn(a) * Sgn(b) * ((Abs(a) \div c) * Abs(b) + ((Abs(a) % c) * Abs(b)) \div c)

\* the least d with d * d >= n: (n as f32).sqrt().ceil()
RECURSIVE SqrtCeilFrom(_, _)
SqrtCeilFrom(n, d) == IF d * d >= n THEN d ELSE SqrtCeilFrom(n, d + 1)

SqrtCeil(n) == SqrtCeilFrom(n, 0)

\* the greatest d with d * d <= n, by bisection on lo * lo <= n < hi * hi:
\* f32::sqrt, truncated to the resolution
RECURSIVE SqrtBisect(_, _, _)
SqrtBisect(n, lo, hi) ==
    IF hi - lo <= 1 THEN lo
    ELSE LET mid == (lo + hi) \div 2
         IN  IF mid * mid <= n THEN SqrtBisect(n, mid, hi) ELSE SqrtBisect(n, lo, mid)

SqrtFloor(n) == SqrtBisect(n, 0, 46340)

CeilDiv(a, b) == (a + b - 1) \div b

Vec2(x, y) == [x |-> x, y |-> y]

ZERO == Vec2(0, 0)

VAdd(a, b) == Vec2(a.x + b.x, a.y + b.y)

VSub(a, b) == Vec2(a.x - b.x, a.y - b.y)

\* Vec<T> indexing is 0-based
At(v, i) == v[i + 1]

Fill(v, z) == [k \in 1..Len(v) |-> z]

Repeat(z, n) == [k \in 1..n |-> z]

----------------------------------------------------------------------------
(* resources/config.rs *)

\* pub const PARTICLE_COUNT of the program as configured; the variable
\* PARTICLE_COUNT is the count of the build that is running
ConfiguredParticleCount == 4000

BOUNDARY_WIDTH == 1280
BOUNDARY_HEIGHT == 720
PARTICLE_RADIUS == 2

DefaultConfig ==
    [smoothing_radius |-> 20 * LU,
     particle_mass |-> 1,
     target_density |-> DU \div 100,
     pressure_multiplier |-> 200,
     viscosity_strength |-> 50,
     gravity |-> Vec2(0, (0 - 100) * LU),
     time_scale |-> 10,
     boundary_damping |-> 40,
     mouse_radius |-> 200 * LU,
     mouse_strength |-> 10 * FU]

\* Values the inspector may give the parameters at run time: the defaults, a
\* smoothing radius above the grid's cell size, a zero and a negative time scale,
\* a large step with a diagonal gravity, the all-zero force parameters, and a
\* particle mass of zero.
ConfigChoices ==
    { DefaultConfig,
      [DefaultConfig EXCEPT !.smoothing_radius = 30 * LU],
      [DefaultConfig EXCEPT !.time_scale = 0],
      [DefaultConfig EXCEPT !.time_scale = 0 - 10],
      [DefaultConfig EXCEPT !.time_scale = 500, !.gravity = Vec2(1000 * LU, (0 - 1000) * LU)],
      [DefaultConfig EXCEPT !.gravity = ZERO, !.pressure_multiplier = 0,
                            !.viscosity_strength = 0],
      [DefaultConfig EXCEPT !.particle_mass = 0] }

----------------------------------------------------------------------------
(* resources/simulation.rs *)

max_h == 25

\* rng.random_range(-w..w), rng.random_range(-h..h): points of the open inset
\* rectangle, w = BOUNDARY_WIDTH / 2 - 20 and h = BOUNDARY_HEIGHT / 2 - 20
RandomRangeW == (BOUNDARY_WIDTH \div 2 - 20) * LU

RandomRangeH == (BOUNDARY_HEIGHT \div 2 - 20) * LU

RandomPoints ==
    { p \in { Vec2(9 * LU, 0), Vec2(20 * LU, 0), Vec2(36 * LU, 0) } :
        /\ 0 - RandomRangeW <= p.x /\ p.x < RandomRangeW
        /\ 0 - RandomRangeH <= p.y /\ p.y < RandomRangeH }

\* the state FluidSimulation::new builds before it calls reset_random.  grid_map
\* is the Vec of grid_len buckets, held as the function from the indices of the
\* buckets that are not empty to their contents: an index below grid_len that is
\* not in its domain is an empty bucket.
Allocated(n) ==
    [positions |-> << >>,
     velocities |-> << >>,
     forces |-> Repeat(ZERO, n),
     densities |-> Repeat(0, n),
     pressures |-> Repeat(0, n),
     grid_map |-> << >>,
     grid_len |-> (CeilDiv(BOUNDARY_WIDTH, max_h) + 4) * (CeilDiv(BOUNDARY_HEIGHT, max_h) + 4),
     grid_cell_size |-> max_h * LU,
     grid_width_cells |-> CeilDiv(BOUNDARY_WIDTH, max_h) + 4,
     grid_height_cells |-> CeilDiv(BOUNDARY_HEIGHT, max_h) + 4,
     grid_offset_x |-> (BOUNDARY_WIDTH \div 2 + max_h * 2) * LU,
     grid_offset_y |-> (BOUNDARY_HEIGHT \div 2 + max_h * 2) * LU]

\* mutant of reset_random: positions and velocities are not cleared first
reset_random_no_clear(s, n, drawn) ==
    [s EXCEPT !.positions = s.positions \o drawn,
              !.velocities = s.velocities \o Repeat(ZERO, n),
              !.forces = Fill(s.forces, ZERO),
              !.densities = Fill(s.densities, 0),
              !.pressures = Fill(s.pressures, 0)]

\* reset_random with the points the generator draws, in push order
reset_random(s, n, drawn) ==
    [s EXCEPT !.positions = drawn,
              !.velocities = Repeat(ZERO, n),
              !.forces = Fill(s.forces, ZERO),
              !.densities = Fill(s.densities, 0),
              !.pressures = Fill(s.pressures, 0)]

\* mutant of GridCols: the square root is rounded down
GridColsFloor(n) == SqrtFloor(n)

GridCols(n) == SqrtCeil(n)

GridRows(n) == CeilDiv(n, GridCols(n))

GridSpacing(n) ==
    LET cols == GridCols(n)
        rows == GridRows(n)
        available_width == (BOUNDARY_WIDTH * LU * 7) \div 10
        available_height == (BOUNDARY_HEIGHT * LU * 7) \div 10
        spacing_x == IF cols > 1 THEN available_width \div (cols - 1) ELSE available_width
        spacing_y == IF rows > 1 THEN available_height \div (rows - 1) ELSE available_height
    IN  Max(12 * LU, Min(Min(spacing_x, spacing_y), 20 * LU))

\* the positions reset_to_grid pushes, in push order (n > 0)
GridPositions(n) ==
    LET cols == GridCols(n)
        rows == GridRows(n)
        spacing == GridSpacing(n)
        start_x == Div(0 - (cols - 1) * spacing, 2)
        start_y == Div(0 - (rows - 1) * spacing, 2)
        slots == { k \in 0..(rows * cols - 1) : k < n }
    IN  [k \in 1..Cardinality(slots) |->
            Vec2(start_x + ((k - 1) % cols) * spacing,
                 start_y + ((k - 1) \div cols) * spacing)]

\* mutant of reset_to_grid: forces are not refilled
reset_to_grid_keep_forces(s, n) ==
    [s EXCEPT !.positions = GridPositions(n),
              !.velocities = Repeat(ZERO, Len(GridPositions(n))),
              !.densities = Fill(s.densities, 0),
              !.pressures = Fill(s.pressures, 0)]

reset_to_grid(s, n) ==
    [s EXCEPT !.positions = GridPositions(n),
              !.velocities = Repeat(ZERO, Len(GridPositions(n))),
              !.forces = Fill(s.forces, ZERO),
              !.densities = Fill(s.densities, 0),
              !.pressures = Fill(s.pressures, 0)]

----------------------------------------------------------------------------
(* kernels.rs *)

\* (q / 1000)^3 in thousandths, for q in thousandths
Cube1000(q) == Div(Div(q * q, 1000) * q, 1000)

\* 4 / (PI h^8) * (h^2 - r^2)^3, in 1/DU; 1273240 is 4 DU / PI
poly6_kernel(dist_sq, h) ==
    LET h2 == h * h
    IN  IF dist_sq < h2
        THEN LET coeff == MulDiv(1273240, LU * LU, h2)
                 diff == MulDiv(h2 - dist_sq, 1000, h2)
             IN  Div(coeff * Cube1000(diff), 1000)
        ELSE 0

\* 10 / (PI h^5) * (h - r)^3, in 1/DU; 3183099 is 10 DU / PI
spiky_kernel_gradient(dist, h) ==
    IF dist < h
    THEN LET coeff == MulDiv(3183099, LU * LU, h * h)
             diff == MulDiv(h - dist, 1000, h)
         IN  Div(coeff * Cube1000(diff), 1000)
    ELSE 0

\* 40 / (PI h^6) * (h - r), in billionths; 12732395 is 40 DU / PI
viscosity_laplacian(dist, h) ==
    IF dist < h
    THEN LET coeff == MulDiv(MulDiv(MulDiv(12732395, LU * LU, h * h), LU * 1000, h),
                             LU * LU, h * h)
             diff == MulDiv(h - dist, 1000, h)
         IN  Div(coeff * diff, 1000)
    ELSE 0

----------------------------------------------------------------------------
(* systems.rs: update_physics_rayon *)

Particles(s) == 0..(Len(s.positions) - 1)

\* ((v + off) / cell_size) as usize: the cast saturates a negative value to 0
CellCoord(v, off, cell_size) == IF v + off < 0 THEN 0 ELSE (v + off) \div cell_size

\* the bucket the rebuild pushes a particle at pos into (lines 70-72)
BucketIndex(s, pos) ==
    LET gx == CellCoord(pos.x, s.grid_offset_x, s.grid_cell_size)
        gy == CellCoord(pos.y, s.grid_offset_y, s.grid_cell_size)
        last == s.grid_len - 1
    IN  Max(0, Min(gy * s.grid_width_cells + gx, last))

\* the contents of bucket c, c < grid_len
Bucket(s, c) == IF c \in DOMAIN s.grid_map THEN s.grid_map[c] ELSE << >>

\* cell.clear() of one cell (line 63)
ClearCell(s, c) == [s EXCEPT !.grid_map = [d \in DOMAIN s.grid_map \ {c} |-> s.grid_map[d]]]

\* line 63 for every cell
ClearAll(s) == [s EXCEPT !.grid_map = << >>]

\* sim.grid_map[idx].push(i) (line 73)
Push(s, idx, i) ==
    [s EXCEPT !.grid_map = [d \in DOMAIN s.grid_map \cup {idx} |->
                               IF d = idx THEN Append(Bucket(s, idx), i) ELSE s.grid_map[d]]]

\* the sequential loop of lines 69-74, from particle i on
RECURSIVE FillFrom(_, _)
FillFrom(s, i) ==
    IF i >= Len(s.positions) THEN s
    ELSE LET idx == BucketIndex(s, At(s.positions, i))
         IN  FillFrom(Push(s, idx, i), i + 1)

FillGrid(s) == FillFrom(s, 0)

\* the cells of the 3x3 block around pos that exist, in the order of the loops
\* over dy and dx (lines 86-96 and 126-137); (gx - 1) as usize is out of range
\* for gx = 0
BlockCells(s, pos) ==
    LET gx == CellCoord(pos.x, s.grid_offset_x, s.grid_cell_size)
        gy == CellCoord(pos.y, s.grid_offset_y, s.grid_cell_size)
        cell(k) == [cx |-> gx + ((k % 3) - 1), cy |-> gy + ((k \div 3) - 1)]
        ok(k) == /\ cell(k).cx >= 0 /\ cell(k).cx < s.grid_width_cells
                 /\ cell(k).cy >= 0 /\ cell(k).cy < s.grid_height_cells
                 /\ cell(k).cy * s.grid_width_cells + cell(k).cx < s.grid_len
    IN  SelectSeq([k \in 1..9 |-> IF ok(k - 1)
                                  THEN cell(k - 1).cy * s.grid_width_cells + cell(k - 1).cx
                                  ELSE 0 - 1],
                  LAMBDA c : c >= 0)

RECURSIVE Concat(_, _)
Concat(s, cells) ==
    IF cells = << >> THEN << >> ELSE Bucket(s, Head(cells)) \o Concat(s, Tail(cells))

\* the particle indices the loops over the 3x3 block read, in order
Candidates(s, pos) == Concat(s, BlockCells(s, pos))

distance_squared(a, b) == (a.x - b.x) * (a.x - b.x) + (a.y - b.y) * (a.y - b.y)

distance(a, b) == SqrtFloor(distance_squared(a, b))

\* the density sum of lines 97-102 over the candidates js
RECURSIVE DensitySum(_, _, _, _)
DensitySum(s, cfg, pos, js) ==
    IF js = << >> THEN 0
    ELSE LET dist_sq == distance_squared(pos, At(s.positions, Head(js)))
             h == cfg.smoothing_radius
         IN  (IF dist_sq < h * h THEN cfg.particle_mass * poly6_kernel(dist_sq, h) ELSE 0)
             + DensitySum(s, cfg, pos, Tail(js))

\* mutant of DensityStep: the item also adds its kernel value to the density of
\* every neighbour it visits (a scatter instead of a gather)
DensityStepScatter(s, cfg, i) ==
    LET pos == At(s.positions, i)
        js == Candidates(s, pos)
        d == DensitySum(s, cfg, pos, js)
        visited == { js[k] : k \in 1..Len(js) } \ {i}
        own == [s EXCEPT !.densities[i + 1] = d,
                         !.pressures[i + 1] = cfg.pressure_multiplier * (d - cfg.target_density)]
    IN  [own EXCEPT !.densities =
            [k \in 1..Len(s.densities) |->
                IF (k - 1) \in visited
                THEN own.densities[k]
                     + cfg.particle_mass
                       * poly6_kernel(distance_squared(pos, At(s.positions, k - 1)),
                                      cfg.smoothing_radius)
                ELSE own.densities[k]]]

\* one work item of the density/pressure pass (lines 83-108)
DensityStep(s, cfg, i) ==
    LET pos == At(s.positions, i)
        d == DensitySum(s, cfg, pos, Candidates(s, pos))
    IN  [s EXCEPT !.densities[i + 1] = d,
                  !.pressures[i + 1] = cfg.pressure_multiplier * (d - cfg.target_density)]

\* (p / d) / d for a pressure p and a density d in 1/DU, in whole units.  For
\* d = 0 the f32 quotient is an infinity or NaN, which no number here stands
\* for: the force item that forms it is NonFinite, and the 0 is never stored.
PressureOverDensitySq(p, d) ==
    IF d = 0 THEN 0 ELSE MulDiv(MulDiv(p, 100, d), 10000, d)

\* densities[j].max(0.0001) (line 147) and dens.max(0.0001) (line 190)
SafeDensity(d) == Max(d, DU \div 10000)

\* (b - a) / dist, in thousandths
Direction(a, b, dist) == Vec2(MulDiv(b.x - a.x, 1000, dist), MulDiv(b.y - a.y, 1000, dist))

\* the neighbours whose pair terms the force item of particle i computes: the
\* other indices of its 3x3 block with dist < h && dist > 0.0001 (lines 139-145)
InRange(s, cfg, i) ==
    LET pos == At(s.positions, i)
        js == Candidates(s, pos)
    IN  { j \in { js[k] : k \in 1..Len(js) } \ {i} :
            /\ distance(pos, At(s.positions, j)) < cfg.smoothing_radius
            /\ distance(pos, At(s.positions, j)) > 0 }

\* the divisors of the divisions by a density in the force item of particle i:
\* for every neighbour in range, press / dens / dens divides by the particle's
\* own density as read at line 120, and pressures[j] / safe_dens / safe_dens
\* and 1.0 / safe_dens divide by the floored density of the neighbour
\* (lines 147-163)
ForceDivisors(s, cfg, i) ==
    UNION { { At(s.densities, i), SafeDensity(At(s.densities, j)) } : j \in InRange(s, cfg, i) }

\* the divisor of line 190: force / dens.max(0.0001)
IntegrateDivisor(s, i) == SafeDensity(At(s.densities, i))

\* the force item of particle i divides by a density of zero: its force is an
\* infinity or NaN
NonFinite(s, cfg, i) == 0 \in ForceDivisors(s, cfg, i)

\* the pressure and viscosity contribution of neighbour j to particle i
\* (lines 139-165), in 1/FU
PairForce(s, cfg, i, j) ==
    LET pos == At(s.positions, i)
        other_pos == At(s.positions, j)
        h == cfg.smoothing_radius
        dist == distance(pos, other_pos)
    IN  IF i # j /\ dist < h /\ dist > 0
        THEN LET dir == Direction(pos, other_pos, dist)
                 safe_dens == SafeDensity(At(s.densities, j))
                 slope == spiky_kernel_gradient(dist, h)
                 pressure_term ==
                     PressureOverDensitySq(At(s.pressures, i), At(s.densities, i))
                     + PressureOverDensitySq(At(s.pressures, j), safe_dens)
                 pmag == (0 - cfg.particle_mass) * cfg.particle_mass
                         * MulDiv(pressure_term, slope, 1000)
                 vel_diff == VSub(At(s.velocities, j), At(s.velocities, i))
                 laplacian == viscosity_laplacian(dist, h)
                 vcoef == Div(cfg.viscosity_strength * laplacian, safe_dens)
                          * cfg.particle_mass
             IN  Vec2(MulDiv(pmag, dir.x, 1000) + MulDiv(vel_diff.x, vcoef, LU),
                      MulDiv(pmag, dir.y, 1000) + MulDiv(vel_diff.y, vcoef, LU))
        ELSE ZERO

RECURSIVE PairForceSum(_, _, _, _)
PairForceSum(s, cfg, i, js) ==
    IF js = << >> THEN ZERO
    ELSE VAdd(PairForce(s, cfg, i, Head(js)), PairForceSum(s, cfg, i, Tail(js)))

\* f_interaction of lines 171-180, in 1/FU
InteractionForce(cfg, inp, pos) ==
    LET dist == distance(pos, inp.pos)
    IN  IF inp.factor # 0 /\ dist < cfg.mouse_radius /\ dist > 0
        THEN LET dir == Direction(pos, inp.pos, dist)
                 strength == MulDiv(cfg.mouse_strength, cfg.mouse_radius - dist,
                                    cfg.mouse_radius)
             IN  Vec2(MulDiv(strength, dir.x, 1000) * inp.factor,
                      MulDiv(strength, dir.y, 1000) * inp.factor)
        ELSE ZERO

\* mutant of GravityForce: the default gravity, not the configured one
GravityForceDefault(cfg, dens) ==
    Vec2(MulDiv(0, dens, LU * (DU \div FU)),
         MulDiv((0 - 100) * LU, dens, LU * (DU \div FU)))

\* gravity * dens of line 182, in 1/FU
GravityForce(cfg, dens) ==
    Vec2(MulDiv(cfg.gravity.x, dens, LU * (DU \div FU)),
         MulDiv(cfg.gravity.y, dens, LU * (DU \div FU)))

\* the half-extents of the collision rectangle (lines 195-196)
WallX == (BOUNDARY_WIDTH \div 2 - PARTICLE_RADIUS) * LU

WallY == (BOUNDARY_HEIGHT \div 2 - PARTICLE_RADIUS) * LU

\* mutant of CollideX: the right wall is not tested
CollideXLeftOnly(px, vx, restitution) ==
    IF px < 0 - WallX THEN [p |-> 0 - WallX, v |-> MulDiv(vx, 0 - restitution, 100)]
    ELSE [p |-> px, v |-> vx]

\* lines 199-205: position and velocity on the x axis after the walls
CollideX(px, vx, restitution) ==
    IF px < 0 - WallX THEN [p |-> 0 - WallX, v |-> MulDiv(vx, 0 - restitution, 100)]
    ELSE IF px > WallX THEN [p |-> WallX, v |-> MulDiv(vx, 0 - restitution, 100)]
    ELSE [p |-> px, v |-> vx]

\* mutant of CollideY: the floor reflects like the other three walls
CollideYReflect(py, vy, restitution) ==
    IF py < 0 - WallY THEN [p |-> 0 - WallY, v |-> MulDiv(vy, 0 - restitution, 100)]
    ELSE IF py > WallY THEN [p |-> WallY, v |-> MulDiv(vy, 0 - restitution, 100)]
    ELSE [p |-> py, v |-> vy]

\* lines 207-213: position and velocity on the y axis after floor and ceiling
CollideY(py, vy, restitution) ==
    IF py < 0 - WallY THEN [p |-> 0 - WallY, v |-> MulDiv(Max(vy, 0), restitution, 100)]
    ELSE IF py > WallY THEN [p |-> WallY, v |-> MulDiv(vy, 0 - restitution, 100)]
    ELSE [p |-> py, v |-> vy]

\* dt = 0.002 * time_scale, as the fraction time_scale / 500
Scaled(a, time_scale) == MulDiv(a, time_scale, 500)

\* lines 190-193: the velocity and the position of particle i after the
\* acceleration, the damping and the position update, before the walls
Integrated(s, cfg, i) ==
    LET force == At(s.forces, i)
        dens == SafeDensity(At(s.densities, i))
        vel0 == At(s.velocities, i)
        ax == MulDiv(force.x, LU * (DU \div FU) , dens)
        ay == MulDiv(force.y, LU * (DU \div FU), dens)
        vx == MulDiv(vel0.x + Scaled(ax, cfg.time_scale), 99, 100)
        vy == MulDiv(vel0.y + Scaled(ay, cfg.time_scale), 99, 100)
    IN  [vel |-> Vec2(vx, vy),
         pos |-> Vec2(At(s.positions, i).x + Scaled(vx, cfg.time_scale),
                      At(s.positions, i).y + Scaled(vy, cfg.time_scale))]

\* one work item of the integration pass (lines 189-214)
IntegrateStep(s, cfg, i) ==
    LET raw == Integrated(s, cfg, i)
        cx == CollideX(raw.pos.x, raw.vel.x, cfg.boundary_damping)
        cy == CollideY(raw.pos.y, raw.vel.y, cfg.boundary_damping)
    IN  [s EXCEPT !.positions[i + 1] = Vec2(cx.p, cy.p),
                  !.velocities[i + 1] = Vec2(cx.v, cy.v)]

\* mutant of ForceStep: the force item integrates its particle in place
ForceStepInPlace(s, cfg, inp, i) ==
    LET pos == At(s.positions, i)
        f == VAdd(VAdd(PairForceSum(s, cfg, i, Candidates(s, pos)),
                       GravityForce(cfg, At(s.densities, i))),
                  InteractionForce(cfg, inp, pos))
    IN  IntegrateStep([s EXCEPT !.forces[i + 1] = f], cfg, i)

\* one work item of the force pass (lines 118-183)
ForceStep(s, cfg, inp, i) ==
    LET pos == At(s.positions, i)
        f == VAdd(VAdd(PairForceSum(s, cfg, i, Candidates(s, pos)),
                       GravityForce(cfg, At(s.densities, i))),
                  InteractionForce(cfg, inp, pos))
    IN  [s EXCEPT !.forces[i + 1] = f]

\* A slot is an element of one of the arrays or one bucket of the grid:
\* <<"positions", i>>, ..., <<"grid_map", c>>.

\* the slot the work item of cell c of the clear writes: |cell| cell.clear() on
\* grid_map.par_iter_mut() (line 63)
ClearWrites(c) == { <<"grid_map", c>> }

\* the slots a density item writes: its elements of densities.par_iter_mut()
\* zipped with pressures (lines 79-83, 105-107)
DensityWrites(i) == { <<"densities", i>>, <<"pressures", i>> }

\* the slots a density item reads: its position (enumerate index into
\* positions), the buckets of its 3x3 block and the position of every index
\* in them (lines 84-99)
DensityReads(s, i) ==
    LET pos == At(s.positions, i)
        cells == BlockCells(s, pos)
        js == Candidates(s, pos)
    IN  { <<"positions", i>> }
        \cup { <<"grid_map", cells[k]>> : k \in 1..Len(cells) }
        \cup { <<"positions", js[k]>> : k \in 1..Len(js) }

\* the slot a force item writes: its element of forces.par_iter_mut() (line 115)
ForceWrites(i) == { <<"forces", i>> }

\* the slots a force item reads: its own position, velocity, density and
\* pressure (lines 119-122), the buckets of its 3x3 block, the position of
\* every other index in them (line 142) and, for those in range, their density,
\* pressure and velocity (lines 147, 151, 158)
ForceReads(s, cfg, i) ==
    LET pos == At(s.positions, i)
        cells == BlockCells(s, pos)
        js == Candidates(s, pos)
        others == { js[k] : k \in 1..Len(js) } \ {i}
        inrange == InRange(s, cfg, i)
    IN  { <<"positions", i>>, <<"velocities", i>>, <<"densities", i>>, <<"pressures", i>> }
        \cup { <<"grid_map", cells[k]>> : k \in 1..Len(cells) }
        \cup { <<"positions", j>> : j \in others }
        \cup { <<"densities", j>> : j \in inrange }
        \cup { <<"pressures", j>> : j \in inrange }
        \cup { <<"velocities", j>> : j \in inrange }

\* the slots an integration item writes: its elements of
\* positions.par_iter_mut() zipped with velocities (lines 184-186)
IntegrateWrites(i) == { <<"positions", i>>, <<"velocities", i>> }

\* the slots an integration item reads: its elements of the four zipped arrays
\* (lines 184-189)
IntegrateReads(i) ==
    { <<"positions", i>>, <<"velocities", i>>, <<"forces", i>>, <<"densities", i>> }

\* a pass whose work items run in index order, from item i on
RECURSIVE RunPass(_, _, _, _, _)
RunPass(pass, s, cfg, inp, i) ==
    IF i >= Len(s.positions) THEN s
    ELSE RunPass(pass,
                 CASE pass = "density" -> DensityStep(s, cfg, i)
                   [] pass = "force" -> ForceStep(s, cfg, inp, i)
                   [] pass = "integrate" -> IntegrateStep(s, cfg, i),
                 cfg, inp, i + 1)

\* mutant of NonPositiveDt: the test is dt < 0.0
NegativeDt(cfg) == cfg.time_scale < 0

\* dt <= 0.0 of line 31
NonPositiveDt(cfg) == cfg.time_scale <= 0

\* update_physics_rayon with every pass run in index order
TickInOrder(s, cfg, inp) ==
    IF NonPositiveDt(cfg) THEN s
    ELSE RunPass("integrate",
                 RunPass("force",
                         RunPass("density", FillGrid(ClearAll(s)), cfg, inp, 0),
                         cfg, inp, 0),
                 cfg, inp, 0)

----------------------------------------------------------------------------
(* The state machine *)

\* the interaction read at lines 36-50: no cursor or no button, the left button
\* (attract) or the right button (repel) with the cursor at a world position
Inputs ==
    { [factor |-> 0, pos |-> ZERO],
      [factor |-> 1, pos |-> Vec2(25 * LU, 5 * LU)],
      [factor |-> 0 - 1, pos |-> Vec2(25 * LU, 5 * LU)] }

\* FluidSimulation::new for a build with n particles and the points drawn
New(n, drawn) == reset_random(Allocated(n), n, drawn)

\* mutant of PassComplete: the next stage starts without waiting for the pass
PassCompleteEarly(s, done) == TRUE

\* a parallel pass has joined: every work item has run (the end of a for_each)
PassComplete(s, done) == done = Particles(s)

\* the cells whose clear() of line 63 changes something
OccupiedCells(s) == DOMAIN s.grid_map

\* mutant of AllCleared: the fill starts without waiting for the clear
AllClearedEarly(s) == TRUE

\* the par_iter_mut of line 63 has joined
AllCleared(s) == OccupiedCells(s) = {}

Init ==
    /\ PARTICLE_COUNT \in 0..MaxParticles
    /\ \E drawn \in [1..PARTICLE_COUNT -> RandomPoints] : sim = New(PARTICLE_COUNT, drawn)
    /\ config = DefaultConfig
    /\ pc = "idle"
    /\ input = [factor |-> 0, pos |-> ZERO]
    /\ densDone = {}
    /\ forceDone = {}
    /\ integDone = {}
    /\ pre = sim
    /\ expected = sim
    /\ lastOp = "new"
    /\ ticks = 0
    /\ resets = 0
    /\ edits = 0

\* handle_input, key R
ResetRandom ==
    /\ pc = "idle"
    /\ resets < MaxResets
    /\ \E drawn \in [1..PARTICLE_COUNT -> RandomPoints] :
          sim' = reset_random(sim, PARTICLE_COUNT, drawn)
    /\ lastOp' = "reset_random"
    /\ resets' = resets + 1
    /\ UNCHANGED <<PARTICLE_COUNT, config, pc, input, densDone, forceDone, integDone,
                   pre, expected, ticks, edits>>

\* handle_input, key G; with no particle cols is 0 and div_ceil panics after the
\* two clear() calls
ResetToGrid ==
    /\ pc = "idle"
    /\ resets < MaxResets
    /\ IF PARTICLE_COUNT = 0
       THEN /\ sim' = [sim EXCEPT !.positions = << >>, !.velocities = << >>]
            /\ pc' = "panic"
            /\ lastOp' = lastOp
       ELSE /\ sim' = reset_to_grid(sim, PARTICLE_COUNT)
            /\ pc' = pc
            /\ lastOp' = "reset_to_grid"
    /\ resets' = resets + 1
    /\ UNCHANGED <<PARTICLE_COUNT, config, input, densDone, forceDone, integDone,
                   pre, expected, ticks, edits>>

\* the inspector writes the FluidConfig resource between two systems
EditConfig ==
    /\ pc = "idle"
    /\ edits < MaxEdits
    /\ \E c \in ConfigChoices \ {config} : config' = c
    /\ lastOp' = "edit"
    /\ edits' = edits + 1
    /\ UNCHANGED <<PARTICLE_COUNT, sim, pc, input, densDone, forceDone, integDone,
                   pre, expected, ticks, resets>>

\* update_physics_rayon is called (lines 30-60): it returns at once for dt <= 0
BeginTick ==
    /\ pc = "idle"
    /\ ticks < MaxTicks
    /\ \E inp \in Inputs :
          /\ input' = inp
          /\ expected' = TickInOrder(sim, config, inp)
    /\ pre' = sim
    /\ ticks' = ticks + 1
    /\ densDone' = {}
    /\ forceDone' = {}
    /\ integDone' = {}
    /\ lastOp' = "tick"
    /\ pc' = IF NonPositiveDt(config) THEN "idle" ELSE "clear"
    /\ UNCHANGED <<PARTICLE_COUNT, sim, config, resets, edits>>

\* line 63, one work item: a cell that holds something is cleared (clearing an
\* empty cell changes nothing)
ClearStep(c) ==
    /\ pc = "clear"
    /\ c \in OccupiedCells(sim)
    /\ sim' = ClearCell(sim, c)
    /\ UNCHANGED <<PARTICLE_COUNT, config, pc, input, densDone, forceDone, integDone,
                   pre, expected, lastOp, ticks, resets, edits>>

\* lines 64-76: after the clear has joined, the sequential fill
FillStep ==
    /\ pc = "clear"
    /\ AllCleared(sim)
    /\ sim' = FillGrid(sim)
    /\ pc' = "density"
    /\ UNCHANGED <<PARTICLE_COUNT, config, input, densDone, forceDone, integDone,
                   pre, expected, lastOp, ticks, resets, edits>>

DensityItem(i) ==
    /\ pc = "density"
    /\ i \in Particles(sim) \ densDone
    /\ sim' = DensityStep(sim, config, i)
    /\ densDone' = densDone \cup {i}
    /\ UNCHANGED <<PARTICLE_COUNT, config, pc, input, forceDone, integDone,
                   pre, expected, lastOp, ticks, resets, edits>>

DensityJoin ==
    /\ pc = "density"
    /\ PassComplete(sim, densDone)
    /\ pc' = "force"
    /\ UNCHANGED <<PARTICLE_COUNT, sim, config, input, densDone, forceDone, integDone,
                   pre, expected, lastOp, ticks, resets, edits>>

\* a work item of the force pass.  When it divides by a zero density its force
\* is not a finite number: the run has left the numbers the model computes
\* with, and pc = "nonfinite" ends it here.
ForceItem(i) ==
    /\ pc = "force"
    /\ i \in Particles(sim) \ forceDone
    /\ IF NonFinite(sim, config, i)
       THEN /\ pc' = "nonfinite"
            /\ UNCHANGED <<sim, forceDone>>
       ELSE /\ sim' = ForceStep(sim, config, input, i)
            /\ forceDone' = forceDone \cup {i}
            /\ pc' = pc
    /\ UNCHANGED <<PARTICLE_COUNT, config, input, densDone, integDone,
                   pre, expected, lastOp, ticks, resets, edits>>

ForceJoin ==
    /\ pc = "force"
    /\ PassComplete(sim, forceDone)
    /\ pc' = "integrate"
    /\ UNCHANGED <<PARTICLE_COUNT, sim, config, input, densDone, forceDone, integDone,
                   pre, expected, lastOp, ticks, resets, edits>>

IntegrateItem(i) ==
    /\ pc = "integrate"
    /\ i \in Particles(sim) \ integDone
    /\ sim' = IntegrateStep(sim, config, i)
    /\ integDone' = integDone \cup {i}
    /\ UNCHANGED <<PARTICLE_COUNT, config, pc, input, densDone, forceDone,
                   pre, expected, lastOp, ticks, resets, edits>>

\* update_physics_rayon returns
IntegrateJoin ==
    /\ pc = "integrate"
    /\ PassComplete(sim, integDone)
    /\ pc' = "idle"
    /\ UNCHANGED <<PARTICLE_COUNT, sim, config, input, densDone, forceDone, integDone,
                   pre, expected, lastOp, ticks, resets, edits>>

Next ==
    \/ ResetRandom
    \/ ResetToGrid
    \/ EditConfig
    \/ BeginTick
    \/ \E c \in OccupiedCells(sim) : ClearStep(c)
    \/ FillStep
    \/ \E i \in 0..(MaxParticles - 1) : DensityItem(i)
    \/ DensityJoin
    \/ \E i \in 0..(MaxParticles - 1) : ForceItem(i)
    \/ ForceJoin
    \/ \E i \in 0..(MaxParticles - 1) : IntegrateItem(i)
    \/ IntegrateJoin

Spec == Init /\ [][Next]_vars

\* reset_to_grid as a function of the particle count: a build for each count,
\* constructed, then key G
GridCounts == 0..MaxGridCount \cup {900, ConfiguredParticleCount}

GridInit ==
    /\ PARTICLE_COUNT \in GridCounts
    /\ sim = New(PARTICLE_COUNT, Repeat(CHOOSE p \in RandomPoints : TRUE, PARTICLE_COUNT))
    /\ config = DefaultConfig
    /\ pc = "idle"
    /\ input = [factor |-> 0, pos |-> ZERO]
    /\ densDone = {}
    /\ forceDone = {}
    /\ integDone = {}
    /\ pre = sim
    /\ expected = sim
    /\ lastOp = "new"
    /\ ticks = 0
    /\ resets = 0
    /\ edits = 0

GridNext == ResetToGrid

SpecGrid == GridInit /\ [][GridNext]_vars

\* The rebuild and the queries as functions of the positions: a simulation
\* whose pub positions hold points inside the collision rectangle, in the
\* padding of the grid and beyond the grid on each side, then ticks.
PlacedPoints ==
    { Vec2(9 * LU, 0),
      Vec2(700 * LU, 0),
      Vec2(715 * LU, 0),
      Vec2((0 - 700) * LU, 0),
      Vec2(0, 420 * LU),
      Vec2(0, (0 - 420) * LU),
      Vec2(0, (0 - 365) * LU),
      Vec2(0, (0 - 375) * LU) }

PlacedInit ==
    /\ PARTICLE_COUNT \in 1..MaxParticles
    /\ \E placed \in [1..PARTICLE_COUNT -> PlacedPoints] :
          sim = [Allocated(PARTICLE_COUNT) EXCEPT
                    !.positions = placed,
                    !.velocities = Repeat(ZERO, PARTICLE_COUNT)]
    /\ config = DefaultConfig
    /\ pc = "idle"
    /\ input = [factor |-> 0, pos |-> ZERO]
    /\ densDone = {}
    /\ forceDone = {}
    /\ integDone = {}
    /\ pre = sim
    /\ expected = sim
    /\ lastOp = "new"
    /\ ticks = 0
    /\ resets = 0
    /\ edits = 0

PlacedNext ==
    \/ BeginTick
    \/ \E c \in OccupiedCells(sim) : ClearStep(c)
    \/ FillStep
    \/ \E i \in 0..(MaxParticles - 1) : DensityItem(i)
    \/ DensityJoin
    \/ \E i \in 0..(MaxParticles - 1) : ForceItem(i)
    \/ ForceJoin
    \/ \E i \in 0..(MaxParticles - 1) : IntegrateItem(i)
    \/ IntegrateJoin

SpecPlaced == PlacedInit /\ [][PlacedNext]_vars

----------------------------------------------------------------------------
(* Properties *)

InTick == pc \in {"clear", "density", "force", "integrate"}

AfterTick == pc = "idle" /\ lastOp = "tick"

\* the densities and pressures the density pass of the running tick computes
\* from the positions the tick began with
TickDensities == RunPass("density", FillGrid(ClearAll(pre)), config, input, 0)

AreNeighbours(s, i, j) ==
    /\ i # j
    /\ distance_squared(At(s.positions, i), At(s.positions, j)) > 0
    /\ distance_squared(At(s.positions, i), At(s.positions, j))
          < config.smoothing_radius * config.smoothing_radius

\* C1: within a tick the stages run in the order grid rebuild, density/pressure,
\* force, integration, each after the previous one has finished for every
\* particle: a density item runs on the rebuilt grid, a force item only when
\* every density item has run and densities and pressures hold this tick's
\* values for every particle, an integration item only when every force item
\* has run; and until the integration pass nothing has modified positions or
\* velocities.
C1_StagesInOrder ==
    /\ (pc = "density" \/ densDone # {}) => sim.grid_map = FillGrid(ClearAll(pre)).grid_map
    /\ (pc = "force" \/ forceDone # {}) =>
          /\ densDone = Particles(sim)
          /\ (integDone = {} =>
                 /\ sim.densities = TickDensities.densities
                 /\ sim.pressures = TickDensities.pressures)
    /\ (pc = "integrate" \/ integDone # {}) => forceDone = Particles(sim)
    /\ pc \in {"clear", "density", "force"} =>
          /\ integDone = {}
          /\ sim.positions = pre.positions
          /\ sim.velocities = pre.velocities

\* C1 witness: a force item has run for a particle with a neighbour inside the
\* smoothing radius, while another force item has not run yet
C1_Witness ==
    /\ pc = "force"
    /\ forceDone # {}
    /\ forceDone # Particles(sim)
    /\ \E i \in forceDone : \E j \in Particles(sim) : AreNeighbours(sim, i, j)

Arrays(s) ==
    [positions |-> s.positions, velocities |-> s.velocities, forces |-> s.forces,
     densities |-> s.densities, pressures |-> s.pressures]

\* C2: whatever the order in which the work items of the parallel stages ran, a
\* tick ends in the positions, velocities, forces, densities and pressures that
\* running every stage in index order gives.
C2_ScheduleIndependent == AfterTick => Arrays(sim) = Arrays(expected)

\* C2 witness: a tick has ended for two particles that were inside each other's
\* smoothing radius, and it moved them
C2_Witness ==
    /\ AfterTick
    /\ Len(pre.positions) = 2
    /\ AreNeighbours(pre, 0, 1)
    /\ sim.positions # pre.positions
    /\ At(sim.forces, 0).x # 0

\* how often particle index i occurs in the buckets of the grid
Occurrences(s, i) ==
    Cardinality({ ck \in UNION { { <<c, k>> : k \in 1..Len(s.grid_map[c]) } :
                                 c \in DOMAIN s.grid_map } :
                  s.grid_map[ck[1]][ck[2]] = i })

\* C3: after the rebuild every particle index occurs exactly once in the grid,
\* in the bucket of its current position, and the grid holds nothing else.
C3_GridComplete ==
    pc \in {"density", "force"} =>
        /\ \A i \in Particles(sim) :
              /\ Occurrences(sim, i) = 1
              /\ \E k \in 1..Len(Bucket(sim, BucketIndex(sim, At(sim.positions, i)))) :
                    Bucket(sim, BucketIndex(sim, At(sim.positions, i)))[k] = i
        /\ \A c \in DOMAIN sim.grid_map :
              /\ c \in 0..(sim.grid_len - 1)
              /\ \A k \in 1..Len(sim.grid_map[c]) : sim.grid_map[c][k] \in Particles(sim)

\* C3 witness: the grid has been rebuilt in a second tick, from positions whose
\* buckets differ from those the previous rebuild left behind
C3_Witness ==
    /\ pc = "density"
    /\ ticks = 2
    /\ pre.grid_map # << >>
    /\ pre.grid_map # sim.grid_map
    /\ Len(sim.positions) = 2

\* C4: in a tick every particle within the smoothing radius of a particle is
\* among the indices the 3x3 block around that particle's cell yields.
C4_NeighbourSuperset ==
    pc \in {"density", "force"} =>
        \A p \in Particles(sim) : \A q \in Particles(sim) :
            distance_squared(At(sim.positions, p), At(sim.positions, q))
                < config.smoothing_radius * config.smoothing_radius
            => \E k \in 1..Len(Candidates(sim, At(sim.positions, p))) :
                  Candidates(sim, At(sim.positions, p))[k] = q

\* C5: a tick whose dt = 0.002 * time_scale is not positive has returned with
\* the whole simulation, the grid buckets included, as it was.
C5_NonPositiveDtNoOp == (AfterTick /\ config.time_scale <= 0) => sim = pre

\* C5 witness: such a tick has returned on a simulation that an earlier tick
\* had filled with densities and grid buckets
C5_Witness ==
    /\ AfterTick
    /\ config.time_scale <= 0
    /\ ticks = 2
    /\ sim.grid_map # << >>
    /\ \E i \in Particles(sim) : At(sim.densities, i) # 0

InsideWalls(p) ==
    /\ Abs(p.x) <= (BOUNDARY_WIDTH \div 2 - PARTICLE_RADIUS) * LU
    /\ Abs(p.y) <= (BOUNDARY_HEIGHT \div 2 - PARTICLE_RADIUS) * LU

IntegratedFromOwnSlot(i) ==
    IntegrateStep([sim EXCEPT !.positions = pre.positions, !.velocities = pre.velocities],
                  config, i)

\* C7: after any sequence of new, resets and ticks the five arrays have length
\* PARTICLE_COUNT, and a tick keeps every index on its particle: a slot whose
\* integration item has not run holds what it held when the tick began, and a
\* slot whose item has run holds the integration of its own former value.
C7_LengthsAndIndices ==
    /\ Len(sim.positions) = PARTICLE_COUNT
    /\ Len(sim.velocities) = PARTICLE_COUNT
    /\ Len(sim.forces) = PARTICLE_COUNT
    /\ Len(sim.densities) = PARTICLE_COUNT
    /\ Len(sim.pressures) = PARTICLE_COUNT
    /\ (InTick \/ (AfterTick /\ config.time_scale > 0)) =>
          \A i \in 0..(PARTICLE_COUNT - 1) :
              IF i \in integDone
              THEN /\ At(sim.positions, i) = At(IntegratedFromOwnSlot(i).positions, i)
                   /\ At(sim.velocities, i) = At(IntegratedFromOwnSlot(i).velocities, i)
              ELSE /\ At(sim.positions, i) = At(pre.positions, i)
                   /\ At(sim.velocities, i) = At(pre.velocities, i)

\* C7 witness: a reset after a tick, then a tick that has moved the two
\* particles apart from where the reset put them
C7_Witness ==
    /\ AfterTick
    /\ resets = 1
    /\ ticks = 2
    /\ PARTICLE_COUNT = 2
    /\ At(sim.positions, 0) # At(pre.positions, 0)
    /\ At(sim.positions, 1) # At(pre.positions, 1)

IsZeroed(s) ==
    /\ \A k \in 1..Len(s.velocities) : s.velocities[k] = ZERO
    /\ \A k \in 1..Len(s.forces) : s.forces[k] = ZERO
    /\ \A k \in 1..Len(s.densities) : s.densities[k] = 0
    /\ \A k \in 1..Len(s.pressures) : s.pressures[k] = 0

\* C8: right after reset_random or reset_to_grid every velocity and force is
\* the zero vector, every density and pressure is 0, and the positions are
\* PARTICLE_COUNT new ones that do not depend on the state before: points the
\* generator drew, or the layout of the particle count.
C8_ResetReplaces ==
    lastOp \in {"reset_random", "reset_to_grid"} =>
        /\ IsZeroed(sim)
        /\ Len(sim.velocities) = PARTICLE_COUNT
        /\ Len(sim.positions) = PARTICLE_COUNT
        /\ lastOp = "reset_random" =>
              \A k \in 1..Len(sim.positions) : sim.positions[k] \in RandomPoints
        /\ lastOp = "reset_to_grid" => sim.positions = GridPositions(PARTICLE_COUNT)

\* C8 witness: a reset right after a tick that had left two particles with
\* velocities, forces, densities and pressures that were not zero, at positions
\* that the reset replaced
C8_Witness ==
    /\ lastOp \in {"reset_random", "reset_to_grid"}
    /\ ticks > 0
    /\ PARTICLE_COUNT = 2
    /\ \A k \in 1..2 :
          /\ expected.velocities[k] # ZERO
          /\ expected.forces[k] # ZERO
          /\ expected.densities[k] # 0
          /\ expected.pressures[k] # 0
          /\ expected.positions[k] # sim.positions[k]

\* C9: reset_to_grid for n > 0 particles lays out cols = ceil(sqrt(n)) columns
\* and rows = ceil(n / cols) rows, places exactly n particles row-major with
\* one spacing between 12 and 20 on both axes, centres the cols x rows layout
\* on the origin (to the resolution of the fixed point) and zeroes every
\* velocity; 100 particles make 10 columns and 10 rows.
C9_GridLayout ==
    lastOp = "reset_to_grid" =>
        LET n == PARTICLE_COUNT
            cols == CHOOSE c \in 1..n : (c - 1) * (c - 1) < n /\ n <= c * c
            rows == CHOOSE r \in 1..n : (r - 1) * cols < n /\ n <= r * cols
            spacing == IF n >= 2 THEN sim.positions[2].x - sim.positions[1].x ELSE 12 * LU
            first == sim.positions[1]
        IN  /\ Len(sim.positions) = n
            /\ Len(sim.velocities) = n
            /\ \A k \in 1..n : sim.velocities[k] = ZERO
            /\ 12 * LU <= spacing /\ spacing <= 20 * LU
            /\ \A k \in 0..(n - 1) :
                  /\ At(sim.positions, k).x = first.x + (k % cols) * spacing
                  /\ At(sim.positions, k).y = first.y + (k \div cols) * spacing
            /\ Abs(2 * first.x + (cols - 1) * spacing) <= 1
            /\ Abs(2 * first.y + (rows - 1) * spacing) <= 1
            /\ n = 100 => cols = 10 /\ rows = 10 /\ At(sim.positions, 99).y = 0 - first.y

\* C9 witness: the layout of 100 particles
C9_Witness ==
    /\ lastOp = "reset_to_grid"
    /\ PARTICLE_COUNT = 100
    /\ Len(sim.positions) = 100
    /\ sim.positions[1] = Vec2((0 - 90) * LU, (0 - 90) * LU)
    /\ sim.positions[100] = Vec2(90 * LU, 90 * LU)

\* C9 witness of a spacing strictly between the two clamps and of a last row
\* that is not full
C9_WitnessUnclamped ==
    /\ lastOp = "reset_to_grid"
    /\ PARTICLE_COUNT = 900
    /\ sim.positions[2].x - sim.positions[1].x \in (12 * LU + 1)..(20 * LU - 1)

\* C10: a tick on no particle, or on one particle at rest inside the boundary
\* with zero gravity, zero pressure stiffness, zero viscosity and no
\* interaction, leaves positions and velocities as they were, tick after tick.
C10_ZeroStateIdempotent ==
    (/\ InTick \/ AfterTick
     /\ \/ PARTICLE_COUNT = 0
        \/ /\ PARTICLE_COUNT = 1
           /\ config.gravity = ZERO
           /\ config.pressure_multiplier = 0
           /\ config.viscosity_strength = 0
           /\ input.factor = 0
           /\ pre.velocities = << ZERO >>
           /\ InsideWalls(pre.positions[1]))
    => /\ sim.positions = pre.positions
       /\ sim.velocities = pre.velocities

\* C10 witness: the second of two consecutive ticks with dt > 0 on one particle
\* at rest with the zero parameters has ended
C10_Witness ==
    /\ AfterTick
    /\ ticks = 2
    /\ resets = 0
    /\ PARTICLE_COUNT = 1
    /\ config.gravity = ZERO
    /\ config.pressure_multiplier = 0
    /\ config.viscosity_strength = 0
    /\ config.time_scale > 0
    /\ input.factor = 0
    /\ pre.velocities = << ZERO >>
    /\ pre.grid_map # << >>

\* C10 witness of the other case: a tick with dt > 0 on no particle has ended
C10_WitnessEmpty ==
    /\ AfterTick
    /\ PARTICLE_COUNT = 0
    /\ config.time_scale > 0

\* the slots whose values differ between the simulations s and t
Changed(s, t) ==
    { <<"positions", k - 1>> : k \in { k \in 1..Len(s.positions) : s.positions[k] # t.positions[k] } }
    \cup { <<"velocities", k - 1>> :
              k \in { k \in 1..Len(s.velocities) : s.velocities[k] # t.velocities[k] } }
    \cup { <<"forces", k - 1>> : k \in { k \in 1..Len(s.forces) : s.forces[k] # t.forces[k] } }
    \cup { <<"densities", k - 1>> :
              k \in { k \in 1..Len(s.densities) : s.densities[k] # t.densities[k] } }
    \cup { <<"pressures", k - 1>> :
              k \in { k \in 1..Len(s.pressures) : s.pressures[k] # t.pressures[k] } }
    \cup { <<"grid_map", c>> :
              c \in { c \in DOMAIN s.grid_map \cup DOMAIN t.grid_map : Bucket(s, c) # Bucket(t, c) } }

\* the work items of the parallel stage that is running, each with the slots
\* it reads and the slots it writes
StageItems ==
    CASE pc = "clear" ->
           { [item |-> c, reads |-> ClearWrites(c), writes |-> ClearWrites(c)] :
               c \in OccupiedCells(sim) }
      [] pc = "density" ->
           { [item |-> i, reads |-> DensityReads(sim, i), writes |-> DensityWrites(i)] :
               i \in Particles(sim) }
      [] pc = "force" ->
           { [item |-> i, reads |-> ForceReads(sim, config, i), writes |-> ForceWrites(i)] :
               i \in Particles(sim) }
      [] pc = "integrate" ->
           { [item |-> i, reads |-> IntegrateReads(i), writes |-> IntegrateWrites(i)] :
               i \in Particles(sim) }
      [] OTHER -> {}

\* in the stage that is running, no two work items write one slot and no work
\* item reads a slot that another one writes
StageDisjoint ==
    \A a \in StageItems : \A b \in StageItems \ {a} :
        /\ a.writes \cap b.writes = {}
        /\ a.reads \cap b.writes = {}

\* the state the force pass of the running tick starts from
ForceStart == RunPass("density", FillGrid(ClearAll(pre)), config, input, 0)

\* what a work item has written is what it computes from the state its stage
\* started in: nothing another item of the stage wrote reached it
StageIsolated ==
    /\ \A i \in densDone :
          pc = "density" =>
              /\ At(sim.densities, i) = At(ForceStart.densities, i)
              /\ At(sim.pressures, i) = At(ForceStart.pressures, i)
    /\ \A i \in forceDone :
          pc = "force" =>
              At(sim.forces, i) = At(ForceStep(ForceStart, config, input, i).forces, i)

\* a step of a parallel stage changes only slots that its work item writes,
\* and no step of the density or the force pass changes a grid bucket
StageStep ==
    /\ (pc = "clear" /\ pc' = "clear") =>
          \E c \in OccupiedCells(sim) : Changed(sim, sim') \subseteq ClearWrites(c)
    /\ pc = "density" =>
          /\ \A i \in densDone' \ densDone : Changed(sim, sim') \subseteq DensityWrites(i)
          /\ densDone' = densDone => sim' = sim
          /\ sim'.grid_map = sim.grid_map
    /\ pc = "force" =>
          /\ \A i \in forceDone' \ forceDone : Changed(sim, sim') \subseteq ForceWrites(i)
          /\ forceDone' = forceDone => sim' = sim
          /\ sim'.grid_map = sim.grid_map
    /\ pc = "integrate" =>
          /\ \A i \in integDone' \ integDone : Changed(sim, sim') \subseteq IntegrateWrites(i)
          /\ integDone' = integDone => sim' = sim

\* C11: in each parallel stage of a tick every slot is written by at most one
\* work item, no work item reads a slot that another work item of the stage
\* writes, every step changes only the slots of its own work item, and no step
\* of the density or the force pass changes a grid bucket.
C11_RaceFree == [](StageDisjoint /\ StageIsolated) /\ [][StageStep]_vars

\* C11 witness: the density pass is half done on two particles that are in
\* each other's 3x3 block and smoothing radius, so each item reads the
\* position of the other and the bucket the other is in
C11_Witness ==
    /\ pc = "density"
    /\ Cardinality(densDone) = 1
    /\ PARTICLE_COUNT = 2
    /\ AreNeighbours(sim, 0, 1)
    /\ <<"positions", 1>> \in DensityReads(sim, 0)
    /\ <<"positions", 0>> \in DensityReads(sim, 1)

\* C12: at every tick the grid cell size used for the rebuild and for the 3x3
\* queries is greater than or equal to the smoothing radius in force during
\* that tick, also after the smoothing radius was changed at run time.
C12_CellCoversRadius == InTick => sim.grid_cell_size >= config.smoothing_radius

\* the particles the running tick, or the tick that has just returned, has
\* integrated
IntegratedNow == IF pc = "integrate" \/ AfterTick THEN integDone ELSE {}

\* the velocity and position particle i had after the position update of the
\* running tick, before the walls were applied
BeforeWalls(i) ==
    Integrated([sim EXCEPT !.positions = pre.positions, !.velocities = pre.velocities],
               config, i)

C13_WitnessUpward ==
    \E i \in IntegratedNow :
        /\ BeforeWalls(i).pos.y < 0 - WallY
        /\ BeforeWalls(i).vel.y > 0
        /\ At(sim.positions, i).y = 0 - WallY
        /\ At(sim.velocities, i).y > 0
        /\ At(sim.velocities, i).y < BeforeWalls(i).vel.y

\* C14: every division by a density performed in a tick uses a divisor that
\* is at least the epsilon 1e-4: the particle's own density and the
\* neighbour's density in the pressure term, the neighbour's density in the
\* viscosity term, the particle's density in the division of the force; so no
\* force item divides by a zero density.
C14_DivisorsFloored ==
    /\ pc = "force" =>
          \A i \in Particles(sim) : \A d \in ForceDivisors(sim, config, i) : d >= DU \div 10000
    /\ pc = "integrate" =>
          \A i \in Particles(sim) : IntegrateDivisor(sim, i) >= DU \div 10000
    /\ pc # "nonfinite"

C16_GridInsideWalls ==
    (lastOp = "reset_to_grid" /\ PARTICLE_COUNT = ConfiguredParticleCount) =>
        \A i \in Particles(sim) : InsideWalls(At(sim.positions, i))

====
